---- MODULE Spec2Model ----
(***************************************************************************)
(* TravelPlanner._optimize_travel_path (src/services/travel_planner.py):   *)
(* the coordinate filter, the batch of pairwise travel-time lookups, the   *)
(* travel_times matrix with its average backfill, and the greedy           *)
(* nearest-unvisited ordering loop.                                        *)
(*                                                                         *)
(* Indices of valid_places are 0-based as in the code; TLA+ sequences are  *)
(* 1-based, so valid_places[i + 1] is the code's valid_places[i].          *)
(*                                                                         *)
(* Further specifications model Cache (src/utils/cache.py) under           *)
(* concurrent callers, search_places of the Naver, Google and Kakao        *)
(* clients with its 24-hour cache entry, and                               *)
(* GeminiService.generate_itinerary with its three attempts.               *)
(***************************************************************************)
EXTENDS FiniteSets, Integers, Sequences, TLC

VARIABLES
    kakao_api,        \* the provider client held by the planner
    places,           \* the argument of _optimize_travel_path
    pc,               \* position inside the call
    valid_places,     \* line 147
    tasks,            \* line 153: the (i, j) of every lookup issued, in order
    results,          \* line 159: results of the lookups resolved so far
    provider_outcome, \* line 210: what the latest provider call ended in
    travel_times,     \* line 152: dict keyed by (i, j)
    optimized_route,  \* line 179
    unvisited,        \* line 180
    current,          \* line 181
    ret               \* the value returned to the caller

\* Cache (src/utils/cache.py) and the Redis server behind it
VARIABLES
    redis,            \* self.redis: 0 for None, else the client's number
    _initialized,     \* self._initialized
    _lock,            \* self._lock: 0 when free, else the coroutine holding it
    connections,      \* every client from_url has created: "open", "closed"
    store,            \* the value the server holds under the key
    coroutines        \* the coroutines calling the cache: position and locals

plannerVars == <<kakao_api, places, pc, valid_places, tasks, results,
                 provider_outcome, travel_times, optimized_route, unvisited,
                 current, ret>>

\* search_places of the Naver, Google and Kakao clients
\* (src/services/naver_search.py, google_places.py, kakao_map.py)
VARIABLES
    search,           \* the client, the position in the call and its locals
    now,              \* the time, in hours
    cached            \* what Redis holds under cache_key: << >> or <<entry>>

\* GeminiService.generate_itinerary (src/services/gemini_service.py)
VARIABLES
    gemini            \* the position in the call, its locals and the replies

cacheVars == <<redis, _initialized, _lock, connections, store, coroutines>>

searchVars == <<search, now, cached>>

geminiVars == <<gemini>>

otherVars == <<cacheVars, searchVars, geminiVars>>

outsideCache == <<plannerVars, searchVars, geminiVars>>

vars == <<plannerVars, otherVars>>

----------------------------------------------------------------------------
(* Bounds of the model. *)

\* longest input list
MaxPlaces == 4

\* most lookups of one call whose outcome differs from the provider's usual
\* answer (a quicker time, or a failure)
MaxDeviating == 3

----------------------------------------------------------------------------
(* Python values. A number is a fraction n/d: an int has d = 1, the float  *)
(* sum/len keeps its numerator and denominator, float('inf') is 1/0.       *)

Sentinel == 99999

Num(v) == [tag |-> "num", n |-> v, d |-> 1]

Ratio(s, l) == [tag |-> "num", n |-> s, d |-> l]

Inf == [tag |-> "num", n |-> 1, d |-> 0]

None == [tag |-> "None", n |-> 0, d |-> 1]

ExceptionObject == [tag |-> "exc", n |-> 0, d |-> 1]

IsNumber(t) == t.tag = "num"

\* a < b on numbers
Less(a, b) == a.n * b.d < b.n * a.d

\* t == 99999 (False for None and for exception objects)
IsSentinel(t) == IsNumber(t) /\ t.d # 0 /\ t.n = Sentinel * t.d

----------------------------------------------------------------------------
(* Places. A coordinate is << >> when the key is missing or None, <<v>>    *)
(* when it holds the number v.                                             *)

Coordinates ==
    { [mapx |-> <<127>>, mapy |-> <<37>>],
      [mapx |-> <<127>>, mapy |-> <<0>>],
      [mapx |-> << >>,   mapy |-> << >>] }

\* truth value of place.get("mapx"): None and 0 are falsy
Truthy(c) == c # << >> /\ c[1] # 0

HasCoordinates(place) == Truthy(place.mapx) /\ Truthy(place.mapy)

\* no filter: every input place goes on to the matrix
PlacesUnfiltered(ps) == ps

\* the filter with the mapy test left out
PlacesWithMapx(ps) == SelectSeq(ps, LAMBDA p : Truthy(p.mapx))

\* line 147
ValidPlaces(ps) == SelectSeq(ps, HasCoordinates)

\* the early return taken for the empty list only
IsEmptyInput(ps) == Len(ps) < 1

\* line 142
IsTrivialInput(ps) == Len(ps) <= 1

----------------------------------------------------------------------------
(* The provider behind self.kakao_api.get_travel_time (line 210).          *)

\* travel times a provider can report
Times == {1, 2}

UsualTime == CHOOSE t \in Times : \A u \in Times : u <= t

\* what awaiting wait_for(get_travel_time(...), timeout=5) can end in
Outcomes ==
    [kind : {"time"}, t : Times]
      \cup [kind : {"None", "timeout", "error"}, t : {0}]

\* lookups resolved so far whose result is not the usual time
Deviating(res) ==
    Cardinality({k \in 1..Len(res) : res[k] # Num(UsualTime)})

\* no provider call has ended yet
NoOutcome == [kind |-> "pending", t |-> 0]

Abs(v) == IF v < 0 THEN 0 - v ELSE v

\* a provider whose travel time is the distance between the coordinates
Distance(origin, destination) ==
    Abs(origin.mapx[1] - destination.mapx[1])
      + Abs(origin.mapy[1] - destination.mapy[1])

\* every client has the operation and answers, is late, or raises
ProviderHasOperation(api, res, origin, destination) ==
    IF Deviating(res) < MaxDeviating
    THEN Outcomes
    ELSE {[kind |-> "time", t |-> UsualTime]}

\* KakaoMapClient (src/services/kakao_map.py) defines no get_travel_time, so
\* the attribute access of line 210 raises AttributeError on every lookup; a
\* client that has the operation answers, is late, or raises; the distance
\* client always answers with the distance of the two places; the slow
\* client answers with the usual time or not at all.
ProviderOutcomes(api, res, origin, destination) ==
    IF api = "KakaoMapClient"
    THEN {[kind |-> "error", t |-> 0]}
    ELSE IF api = "DistanceClient"
         THEN {[kind |-> "time", t |-> Distance(origin, destination)]}
         ELSE IF api = "SlowClient" /\ Deviating(res) < MaxDeviating
         THEN {[kind |-> "time", t |-> UsualTime],
               [kind |-> "timeout", t |-> 0]}
         ELSE IF Deviating(res) < MaxDeviating
              THEN Outcomes
              ELSE {[kind |-> "time", t |-> UsualTime]}

\* the lookup without the "travel_time is None" test of lines 211-213
GetTravelTimeUnchecked(outcome) ==
    IF outcome.kind = "time" THEN Num(outcome.t)
    ELSE IF outcome.kind = "None" THEN None
    ELSE Num(Sentinel)

\* the lookup without the except clauses of lines 215-220: gather, called
\* with return_exceptions=True, hands the exception back as the result
GetTravelTimePropagating(outcome) ==
    IF outcome.kind = "time" THEN Num(outcome.t)
    ELSE IF outcome.kind = "None" THEN Num(Sentinel)
    ELSE ExceptionObject

\* lines 194-220: the value one lookup coroutine resolves to
GetTravelTimeWithTimeout(outcome) ==
    IF outcome.kind = "time" THEN Num(outcome.t) ELSE Num(Sentinel)

----------------------------------------------------------------------------
(* The travel_times matrix.                                                *)

EmptyTimes == [p \in {} |-> None]

\* enumerate(valid_places) x enumerate(valid_places), row by row
AllPairs(n) == [k \in 1..(n * n) |-> <<(k - 1) \div n, (k - 1) % n>>]

\* a guard that skips only the pair of a place with itself
NeedsLookupAnyOrder(p, tt) == p[1] # p[2]

\* lines 156 and 163: the guard of both double loops
NeedsLookup(p, tt) == p[1] # p[2] /\ <<p[2], p[1]>> \notin DOMAIN tt

\* lines 153-157: travel_times is still empty while the tasks are created
CreateTasks(n, tt) ==
    SelectSeq(AllPairs(n), LAMBDA p : NeedsLookup(p, tt))

\* a wait that never returns
GatherNever(res, tsk) == FALSE

\* a wait that returns once the results the fill loop reads are there
GatherReturnsEarly(res, tsk) == 2 * Len(res) >= Len(tsk)

\* line 159: gather returns when every task has a result
GatherDone(res, tsk) == Len(res) = Len(tsk)

\* lines 165-169: what is stored for one result of gather
Recorded(result) ==
    IF result.tag = "exc" THEN Num(Sentinel) ELSE result

\* lines 160-170: the guard reads the dict the loop is filling
RECURSIVE FillTimes(_, _, _, _)
FillTimes(pairs, tt, task_idx, res) ==
    IF pairs = << >>
    THEN tt
    ELSE IF NeedsLookup(Head(pairs), tt)
         THEN FillTimes(Tail(pairs),
                        (Head(pairs) :> Recorded(res[task_idx + 1])) @@ tt,
                        task_idx + 1, res)
         ELSE FillTimes(Tail(pairs), tt, task_idx, res)

\* line 173
ValidTimeKeys(tt) == {p \in DOMAIN tt : ~IsSentinel(tt[p])}

RECURSIVE SumTimes(_, _)
SumTimes(tt, keys) ==
    IF keys = {}
    THEN 0
    ELSE LET p == CHOOSE q \in keys : TRUE
         IN  tt[p].n + SumTimes(tt, keys \ {p})

\* sum() raises TypeError on a value that is not a number
SumRaises(tt) == \E p \in ValidTimeKeys(tt) : ~IsNumber(tt[p])

\* the sum of the valid times divided by the number of all entries
AvgOverAllEntries(tt) ==
    IF ValidTimeKeys(tt) # {}
    THEN Ratio(SumTimes(tt, ValidTimeKeys(tt)), Cardinality(DOMAIN tt))
    ELSE Num(Sentinel)

\* line 174
AvgTravelTime(tt) ==
    IF ValidTimeKeys(tt) # {}
    THEN Ratio(SumTimes(tt, ValidTimeKeys(tt)), Cardinality(ValidTimeKeys(tt)))
    ELSE Num(Sentinel)

\* lines 175-177
Backfilled(tt) ==
    [p \in DOMAIN tt |-> IF IsSentinel(tt[p]) THEN AvgTravelTime(tt) ELSE tt[p]]

----------------------------------------------------------------------------
(* The ordering loop.                                                      *)

\* a route that starts from the last valid place
LastIndex(vp) == Len(vp) - 1

\* line 181: the route starts at index 0 of valid_places
Anchor(vp) == 0

\* the start place left among the unvisited
UnvisitedWithStart(n, cur) == 0..(n - 1)

\* lines 180 and 183
UnvisitedAfterStart(n, cur) == (0..(n - 1)) \ {cur}

\* line 186: the key of min()
Key(tt, cur, x) ==
    IF <<cur, x>> \in DOMAIN tt THEN tt[<<cur, x>>] ELSE Inf

\* candidates no other candidate beats
Minima(unv, cur, tt) ==
    {x \in unv : \A y \in unv : ~Less(Key(tt, cur, y), Key(tt, cur, x))}

\* a min() that keeps the last minimum it meets
NextPlaceLastMinimum(unv, cur, tt) ==
    CHOOSE x \in Minima(unv, cur, tt) : \A y \in Minima(unv, cur, tt) : x >= y

\* line 186: min() keeps the first minimum it meets, and a set of small ints
\* is iterated in increasing order
NextPlace(unv, cur, tt) ==
    CHOOSE x \in Minima(unv, cur, tt) : \A y \in Minima(unv, cur, tt) : x <= y

----------------------------------------------------------------------------
(* The services outside the planner, before any of them is used.           *)

\* most coroutines that use one Cache at the same time
MaxCoroutines == 2

Coroutines == 1..MaxCoroutines

\* a key the server does not hold
Nil == "nil"

\* a coroutine that has not called the cache
Idle ==
    [pc |-> "idle", op |-> "none", value |-> Nil, client |-> 0,
     exc |-> "none", ret |-> [kind |-> "pending", value |-> Nil]]

\* lines 12-17: Cache.__init__, and a server that holds nothing
CacheIdle ==
    /\ redis = 0
    /\ _initialized = FALSE
    /\ _lock = 0
    /\ connections = << >>
    /\ store = Nil
    /\ coroutines = [c \in Coroutines |-> Idle]

Returned(v) == [kind |-> "returned", value |-> v]

Raised(e) == [kind |-> "raised", value |-> e]

\* no search has been made and Redis holds nothing under the key
SearchIdle ==
    /\ search = [api |-> "naver", pc |-> "off", results |-> << >>,
                 ret |-> Returned(<< >>), hit |-> FALSE,
                 cache_error |-> FALSE, populated |-> << >>]
    /\ now = 0
    /\ cached = << >>

\* no itinerary has been asked for
GeminiIdle ==
    gemini = [pc |-> "off", attempt |-> 0, replies |-> << >>,
              json_response |-> "None", cached_data |-> "None",
              ret |-> Returned("None")]

OtherIdle == CacheIdle /\ SearchIdle /\ GeminiIdle

----------------------------------------------------------------------------
(* The call as a state machine.                                            *)

Init ==
    /\ kakao_api \in {"KakaoMapClient", "RoutingClient"}
    /\ \E n \in 0..MaxPlaces :
         \E c \in [1..n -> Coordinates] :
           places = [k \in 1..n |->
                       [name |-> k, mapx |-> c[k].mapx, mapy |-> c[k].mapy]]
    /\ pc = "call"
    /\ valid_places = << >>
    /\ tasks = << >>
    /\ results = << >>
    /\ provider_outcome = NoOutcome
    /\ travel_times = EmptyTimes
    /\ optimized_route = << >>
    /\ unvisited = {}
    /\ current = 0
    /\ ret = << >>
    /\ OtherIdle

\* lines 140-157: the early returns, the filter and the creation of the tasks
Optimize ==
    /\ pc = "call"
    /\ IF IsTrivialInput(places)
       THEN /\ ret' = places
            /\ pc' = "done"
            /\ UNCHANGED <<valid_places, tasks>>
       ELSE /\ valid_places' = ValidPlaces(places)
            /\ IF Len(valid_places') < 2
               THEN /\ ret' = valid_places'
                    /\ pc' = "done"
                    /\ UNCHANGED tasks
               ELSE /\ tasks' = CreateTasks(Len(valid_places'), travel_times)
                    /\ pc' = "gather"
                    /\ UNCHANGED ret
    /\ UNCHANGED otherVars
    /\ UNCHANGED <<kakao_api, places, results, provider_outcome,
                   travel_times, optimized_route, unvisited, current>>

\* lines 194-220 under line 159: one lookup of the batch resolves. gather
\* returns the results in task order whatever the order of completion, so the
\* lookups are resolved in task order.
Lookup ==
    /\ pc = "gather"
    /\ ~GatherDone(results, tasks)
    /\ Len(results) < Len(tasks)
    /\ LET task == tasks[Len(results) + 1]
           place1 == valid_places[task[1] + 1]
           place2 == valid_places[task[2] + 1]
       IN  \E o \in ProviderOutcomes(kakao_api, results, place1, place2) :
             /\ provider_outcome' = o
             /\ results' = Append(results, GetTravelTimeWithTimeout(o))
    /\ UNCHANGED otherVars
    /\ UNCHANGED <<kakao_api, places, pc, valid_places, tasks, travel_times,
                   optimized_route, unvisited, current, ret>>

\* lines 159-170: gather returns once every lookup has resolved
Fill ==
    /\ pc = "gather"
    /\ GatherDone(results, tasks)
    /\ travel_times' =
         FillTimes(AllPairs(Len(valid_places)), travel_times, 0, results)
    /\ pc' = "backfill"
    /\ UNCHANGED otherVars
    /\ UNCHANGED <<kakao_api, places, valid_places, tasks, results,
                   provider_outcome, optimized_route, unvisited, current, ret>>

\* lines 172-177
Backfill ==
    /\ pc = "backfill"
    /\ IF SumRaises(travel_times)
       THEN /\ pc' = "raised"
            /\ UNCHANGED travel_times
       ELSE /\ travel_times' = Backfilled(travel_times)
            /\ pc' = "start"
    /\ UNCHANGED otherVars
    /\ UNCHANGED <<kakao_api, places, valid_places, tasks, results,
                   provider_outcome, optimized_route, unvisited, current, ret>>

\* lines 179-183
StartRoute ==
    /\ pc = "start"
    /\ current' = Anchor(valid_places)
    /\ optimized_route' = <<valid_places[current' + 1]>>
    /\ unvisited' = UnvisitedAfterStart(Len(valid_places), current')
    /\ pc' = "loop"
    /\ UNCHANGED otherVars
    /\ UNCHANGED <<kakao_api, places, valid_places, tasks, results,
                   provider_outcome, travel_times, ret>>

\* a remove() that drops the lowest index, whichever place was chosen
RemoveLowest(unv, x) == unv \ {CHOOSE y \in unv : \A z \in unv : y <= z}

\* line 189: unvisited.remove(next_place)
Remove(unv, x) == unv \ {x}

\* lines 185-189: one iteration of the while loop
Select ==
    /\ pc = "loop"
    /\ unvisited # {}
    /\ LET next_place == NextPlace(unvisited, current, travel_times)
       IN  /\ optimized_route' =
                 Append(optimized_route, valid_places[next_place + 1])
           /\ unvisited' = Remove(unvisited, next_place)
           /\ current' = next_place
    /\ UNCHANGED otherVars
    /\ UNCHANGED <<kakao_api, places, pc, valid_places, tasks, results,
                   provider_outcome, travel_times, ret>>

\* lines 191-192
Return ==
    /\ pc = "loop"
    /\ unvisited = {}
    /\ ret' = optimized_route
    /\ pc' = "done"
    /\ UNCHANGED otherVars
    /\ UNCHANGED <<kakao_api, places, valid_places, tasks, results,
                   provider_outcome, travel_times, optimized_route,
                   unvisited, current>>

Next ==
    \/ Optimize
    \/ Lookup
    \/ Fill
    \/ Backfill
    \/ StartRoute
    \/ Select
    \/ Return

Spec == Init /\ [][Next]_vars

\* a call whose provider fails every lookup, or leaves some unanswered
InitLive ==
    /\ kakao_api \in {"KakaoMapClient", "SlowClient"}
    /\ \E n \in 0..MaxPlaces :
         \E c \in [1..n -> Coordinates] :
           places = [k \in 1..n |->
                       [name |-> k, mapx |-> c[k].mapx, mapy |-> c[k].mapy]]
    /\ pc = "call"
    /\ valid_places = << >>
    /\ tasks = << >>
    /\ results = << >>
    /\ provider_outcome = NoOutcome
    /\ travel_times = EmptyTimes
    /\ optimized_route = << >>
    /\ unvisited = {}
    /\ current = 0
    /\ ret = << >>
    /\ OtherIdle

\* the event loop runs every coroutine that is ready: the call, the lookups
\* of the batch (each ended by the provider or by wait_for after 5 s), and
\* the code after each await
SpecLive == InitLive /\ [][Next]_vars /\ WF_vars(Next)

----------------------------------------------------------------------------
(* create_plan: the normalization of the places that precedes the call of  *)
(* _optimize_travel_path, with a provider that answers every lookup.       *)

\* coordinates of the places the aggregators hand to create_plan: the three
\* places (0,0), (0,1), (0,10), a place without coordinates, a place in
\* Seoul, and a place whose mapy is no latitude
PlanCoordinates ==
    { [mapx |-> <<0>>,   mapy |-> <<0>>],
      [mapx |-> <<0>>,   mapy |-> <<1>>],
      [mapx |-> <<0>>,   mapy |-> <<10>>],
      [mapx |-> << >>,   mapy |-> << >>],
      [mapx |-> <<127>>, mapy |-> <<37>>],
      [mapx |-> <<127>>, mapy |-> <<95>>] }

\* what kakao_api.get_coordinates hands back when it finds the place; the
\* values of Kakao, Google and Naver are passed on as they come
Geocoded ==
    { [mapx |-> <<127>>, mapy |-> <<37>>],
      [mapx |-> <<127>>, mapy |-> <<95>>] }

\* lines 101-112: every list the normalization loop can build from ps. A
\* place without truthy mapx and mapy is geocoded; it is dropped when the
\* geocoder returns None, and takes the coordinates returned otherwise.
RECURSIVE Normalizations(_)
Normalizations(ps) ==
    IF ps = << >>
    THEN {<< >>}
    ELSE LET place == Head(ps)
             rest == Normalizations(Tail(ps))
         IN  IF HasCoordinates(place)
             THEN {<<place>> \o r : r \in rest}
             ELSE rest \cup
                  {<<[place EXCEPT !.mapx = g.mapx, !.mapy = g.mapy]>> \o r :
                      g \in Geocoded, r \in rest}

InitPlan ==
    /\ kakao_api = "DistanceClient"
    /\ \E n \in 0..MaxPlaces :
         \E c \in [1..n -> PlanCoordinates] :
           places = [k \in 1..n |->
                       [name |-> k, mapx |-> c[k].mapx, mapy |-> c[k].mapy]]
    /\ pc \in {"plan", "call"}
    /\ valid_places = << >>
    /\ tasks = << >>
    /\ results = << >>
    /\ provider_outcome = NoOutcome
    /\ travel_times = EmptyTimes
    /\ optimized_route = << >>
    /\ unvisited = {}
    /\ current = 0
    /\ ret = << >>
    /\ OtherIdle

\* lines 100-117: normalized_places is built and, unless it is empty, handed
\* to _optimize_travel_path
Normalize ==
    /\ pc = "plan"
    /\ \E normalized_places \in Normalizations(places) :
         /\ places' = normalized_places
         /\ pc' = IF normalized_places = << >> THEN "error" ELSE "call"
    /\ UNCHANGED otherVars
    /\ UNCHANGED <<kakao_api, valid_places, tasks, results, provider_outcome,
                   travel_times, optimized_route, unvisited, current, ret>>

NextPlan ==
    \/ Normalize
    \/ Next

SpecPlan == InitPlan /\ [][NextPlan]_vars

----------------------------------------------------------------------------
(* Cache (src/utils/cache.py): coroutines of one event loop that call      *)
(* ensure_connection, get, set, delete and close on one Cache. A step runs *)
(* a coroutine from one await to the next.                                 *)

Operations == {"ensure_connection", "get", "set", "delete", "close"}

\* the argument of set: a value json.dumps accepts, or one it rejects
Values == {"json", "unserializable"}

\* the planner is not running
PlannerIdle ==
    /\ kakao_api = "KakaoMapClient"
    /\ places = << >>
    /\ pc = "idle"
    /\ valid_places = << >>
    /\ tasks = << >>
    /\ results = << >>
    /\ provider_outcome = NoOutcome
    /\ travel_times = EmptyTimes
    /\ optimized_route = << >>
    /\ unvisited = {}
    /\ current = 0
    /\ ret = << >>

\* a cache that earlier callers have connected and may have written to
CacheConnected ==
    /\ redis = 1
    /\ _initialized = TRUE
    /\ _lock = 0
    /\ connections = <<"open">>
    /\ store \in {Nil, "json"}
    /\ coroutines = [c \in Coroutines |-> Idle]

InitCache ==
    /\ PlannerIdle
    /\ SearchIdle
    /\ GeminiIdle
    /\ CacheIdle \/ CacheConnected

\* the coroutine c goes on with the fields of f changed
Goes(c, f) ==
    coroutines' =
      [coroutines EXCEPT ![c] = [k \in DOMAIN @ |->
                                   IF k \in DOMAIN f THEN f[k] ELSE @[k]]]

\* the coroutine c ends with the result r; its locals are gone
Ends(c, r) ==
    Goes(c, [pc |-> "done", ret |-> r, value |-> Nil, client |-> 0])

\* the coroutine c ends with the result r after its try block raised e
Fails(c, e, r) ==
    Goes(c, [pc |-> "done", exc |-> e, ret |-> r, value |-> Nil,
             client |-> 0])

\* an acquire that takes the lock whoever holds it
CanAcquireAlways(lock) == TRUE

\* lines 24 and 59: async with self._lock waits until the lock is free
CanAcquire(lock) == lock = 0

\* what each operation returns when there is no connection or Redis fails
FailureValue(op) == IF op = "get" THEN "None" ELSE "False"

\* lines 113-118: the first except clause names json.JSONEncodeError, which
\* the json module does not define, so matching any exception against it
\* raises AttributeError
SetHandler(e) == Raised("AttributeError")

\* where a coroutine goes on after ensure_connection has returned
AfterEnsure(c) ==
    IF coroutines[c].op = "ensure_connection"
    THEN [pc |-> "done", ret |-> Returned("None")]
    ELSE [pc |-> "check"]

\* a caller starts one of the operations; the coroutines are alike, so they
\* are numbered in the order they start
Call(c) ==
    /\ coroutines[c].pc = "idle"
    /\ \A d \in 1..(c - 1) : coroutines[d].pc # "idle"
    /\ \E op \in Operations :
         \E v \in IF op = "set" THEN Values ELSE {Nil} :
           Goes(c, [op |-> op, value |-> v,
                    pc |-> IF op = "close" THEN "close_lock" ELSE "ensure"])
    /\ UNCHANGED <<redis, _initialized, _lock, connections, store>>
    /\ UNCHANGED outsideCache

\* lines 52-55
EnsureConnection(c) ==
    /\ coroutines[c].pc = "ensure"
    /\ IF redis = 0 \/ ~_initialized
       THEN Goes(c, [pc |-> "lock"])
       ELSE Goes(c, AfterEnsure(c))
    /\ UNCHANGED <<redis, _initialized, _lock, connections, store>>
    /\ UNCHANGED outsideCache

\* lines 24-26: the lock is taken; an initialized cache returns at once
Acquire(c) ==
    /\ coroutines[c].pc = "lock"
    /\ CanAcquire(_lock)
    /\ IF _initialized
       THEN Goes(c, AfterEnsure(c)) /\ UNCHANGED _lock
       ELSE Goes(c, [pc |-> "from_url"]) /\ _lock' = c
    /\ UNCHANGED <<redis, _initialized, connections, store>>
    /\ UNCHANGED outsideCache

\* lines 29-33: a new client is created and kept in self.redis
FromUrl(c) ==
    /\ coroutines[c].pc = "from_url"
    /\ connections' = Append(connections, "open")
    /\ redis' = Len(connections')
    /\ Goes(c, [pc |-> "verify"])
    /\ UNCHANGED <<_initialized, _lock, store>>
    /\ UNCHANGED outsideCache

\* lines 35-50: ping, the test write and the test read succeed, or the read
\* gives another value, or Redis raises; the lock is released on the way out
Verify(c) ==
    /\ coroutines[c].pc = "verify"
    /\ \E o \in {"ok", "mismatch", "RedisError"} :
         /\ _initialized' = IF o = "ok" THEN TRUE ELSE _initialized
         /\ redis' = IF o = "ok" THEN redis ELSE 0
         /\ connections' =
              IF o = "mismatch" /\ redis # 0
              THEN [connections EXCEPT ![redis] = "closed"]
              ELSE connections
    /\ _lock' = 0
    /\ Goes(c, AfterEnsure(c))
    /\ UNCHANGED store
    /\ UNCHANGED outsideCache
\* lines 77-79, 102-107 and 130-132: the test of self.redis and, with no
\* await in between, the start of the first Redis command
Check(c) ==
    /\ coroutines[c].pc = "check"
    /\ IF redis = 0
       THEN Ends(c, Returned(FailureValue(coroutines[c].op)))
       ELSE IF coroutines[c].op = "get"
            THEN Goes(c, [pc |-> "redis_get", client |-> redis])
       ELSE IF coroutines[c].op = "delete"
            THEN Goes(c, [pc |-> "redis_delete", client |-> redis])
       ELSE IF coroutines[c].value = "unserializable"
            THEN Fails(c, "TypeError", SetHandler("TypeError"))
            ELSE Goes(c, [pc |-> "setex", client |-> redis])
    /\ UNCHANGED <<redis, _initialized, _lock, connections, store>>
    /\ UNCHANGED outsideCache

\* lines 82-92: self.redis.get(key) answers or raises RedisError
RedisGet(c) ==
    /\ coroutines[c].pc = "redis_get"
    /\ \/ Ends(c, Returned(IF store = Nil THEN "None" ELSE store))
       \/ Fails(c, "RedisError", Returned("None"))
    /\ UNCHANGED <<redis, _initialized, _lock, connections, store>>
    /\ UNCHANGED outsideCache

\* lines 135-143: self.redis.delete(key) answers or raises RedisError
RedisDelete(c) ==
    /\ coroutines[c].pc = "redis_delete"
    /\ \/ /\ Ends(c, Returned(IF store = Nil THEN "False" ELSE "True"))
          /\ store' = Nil
       \/ /\ Fails(c, "RedisError", Returned("False"))
          /\ UNCHANGED store
    /\ UNCHANGED <<redis, _initialized, _lock, connections>>
    /\ UNCHANGED outsideCache

\* lines 107-109: setex has answered or raised; after it line 109 reads
\* self.redis again to start the read-back
Setex(c) ==
    /\ coroutines[c].pc = "setex"
    /\ \/ /\ store' = coroutines[c].value
          /\ IF redis = 0
             THEN Fails(c, "NoneType", SetHandler("NoneType"))
             ELSE Goes(c, [pc |-> "readback", client |-> redis])
       \/ /\ Fails(c, "RedisError", SetHandler("RedisError"))
          /\ UNCHANGED store
    /\ UNCHANGED <<redis, _initialized, _lock, connections>>
    /\ UNCHANGED outsideCache

\* lines 109-112: the read-back answers or raises RedisError
Readback(c) ==
    /\ coroutines[c].pc = "readback"
    /\ \/ Ends(c, Returned(IF store = Nil THEN "False" ELSE "True"))
       \/ Fails(c, "RedisError", SetHandler("RedisError"))
    /\ UNCHANGED <<redis, _initialized, _lock, connections, store>>
    /\ UNCHANGED outsideCache

\* lines 59-60: close takes the lock and tests the connection
CloseAcquire(c) ==
    /\ coroutines[c].pc = "close_lock"
    /\ CanAcquire(_lock)
    /\ IF redis # 0 /\ _initialized
       THEN Goes(c, [pc |-> "closing", client |-> redis]) /\ _lock' = c
       ELSE Ends(c, Returned("None")) /\ UNCHANGED _lock
    /\ UNCHANGED <<redis, _initialized, connections, store>>
    /\ UNCHANGED outsideCache

\* lines 61-68: self.redis.close() has answered or raised; the finally
\* clause resets the cache and the lock is released
Closing(c) ==
    /\ coroutines[c].pc = "closing"
    /\ \/ /\ connections' =
               [connections EXCEPT ![coroutines[c].client] = "closed"]
          /\ Ends(c, Returned("None"))
       \/ /\ UNCHANGED connections
          /\ Fails(c, "RedisError", Returned("None"))
    /\ redis' = 0
    /\ _initialized' = FALSE
    /\ _lock' = 0
    /\ UNCHANGED store
    /\ UNCHANGED outsideCache

NextCache ==
    \E c \in Coroutines :
      \/ Call(c)
      \/ EnsureConnection(c)
      \/ Acquire(c)
      \/ FromUrl(c)
      \/ Verify(c)
      \/ Check(c)
      \/ RedisGet(c)
      \/ RedisDelete(c)
      \/ Setex(c)
      \/ Readback(c)
      \/ CloseAcquire(c)
      \/ Closing(c)

SpecCache == InitCache /\ [][NextCache]_vars

----------------------------------------------------------------------------
(* search_places of NaverSearchClient, GooglePlacesClient and              *)
(* KakaoMapClient: one query and region, asked again and again while time  *)
(* passes. The three methods differ in the image field only.               *)

\* ttl=86400 seconds, in hours
TTL == 24

\* the clock stops here
MaxHours == 25

\* records of a provider's answer: one with a thumbnail, one without
WithThumbnail == [name |-> "A", thumbnail |-> "url"]

WithoutThumbnail == [name |-> "B"]

\* data.get("items", []), data.get("documents", []), data.get("results", [])
ProviderLists ==
    {<< >>, <<WithThumbnail>>, <<WithoutThumbnail>>,
     <<WithThumbnail, WithoutThumbnail>>}

\* json.dumps and json.loads on lists of string-keyed dicts of strings
Dumps(v) == [json |-> v]

Loads(text) == text.json

\* bool(list)
TruthyList(l) == l # << >>

\* naver_search.py lines 44-46, kakao_map.py lines 45-47:
\* result["image"] = result.get("thumbnail", <the "no image" text>)
AddImage(result) ==
    [image |-> IF "thumbnail" \in DOMAIN result
               THEN result.thumbnail
               ELSE "no image"] @@ result

\* what the method returns for the list it fetched
Decorated(api, l) ==
    IF api = "google" THEN l ELSE [k \in 1..Len(l) |-> AddImage(l[k])]

\* the entry Redis holds at time t under the key, None when it has expired
Entry(t) ==
    IF cached # << >> /\ t < cached[1].expires
    THEN <<Loads(cached[1].text)>>
    ELSE << >>

InitSearch ==
    /\ PlannerIdle
    /\ CacheIdle
    /\ GeminiIdle
    /\ \E api \in {"naver", "google", "kakao"} :
         search = [api |-> api, pc |-> "idle", results |-> << >>,
                   ret |-> Returned(<< >>), hit |-> FALSE,
                   cache_error |-> FALSE, populated |-> << >>]
    /\ now = 0
    /\ cached = << >>

\* search_places is called
SearchCall ==
    /\ search.pc \in {"idle", "done"}
    /\ search' = [search EXCEPT !.pc = "get", !.results = << >>,
                                !.hit = FALSE, !.cache_error = FALSE]
    /\ UNCHANGED <<now, cached>>
    /\ UNCHANGED <<plannerVars, cacheVars, geminiVars>>

\* lines 26-29 (naver), 21-25 (google), 26-30 (kakao): cache.get answers
\* with the entry or None, or returns None because Redis failed
SearchGet ==
    /\ search.pc = "get"
    /\ \E failed \in BOOLEAN :
         LET cached_data == IF failed THEN << >> ELSE Entry(now)
         IN  IF cached_data # << >> /\ TruthyList(cached_data[1])
             THEN search' = [search EXCEPT !.pc = "done", !.hit = TRUE,
                                           !.ret = Returned(cached_data[1])]
             ELSE search' = [search EXCEPT !.pc = "fetch",
                                           !.cache_error = failed]
    /\ UNCHANGED <<now, cached>>
    /\ UNCHANGED <<plannerVars, cacheVars, geminiVars>>

\* the request to the provider: a status other than 200, or a list
Fetch ==
    /\ search.pc = "fetch"
    /\ \/ search' = [search EXCEPT !.pc = "done", !.ret = Returned(<< >>)]
       \/ \E l \in ProviderLists :
            search' = [search EXCEPT !.pc = "set", !.results = l]
    /\ UNCHANGED <<now, cached>>
    /\ UNCHANGED <<plannerVars, cacheVars, geminiVars>>

\* cache.set(cache_key, results, ttl=86400) stores the list, or returns
\* False, or raises (SetHandler); then the image field is added and the
\* list returned
StoreAndReturn ==
    /\ search.pc = "set"
    /\ \/ /\ cached' = <<[text |-> Dumps(search.results),
                          expires |-> now + TTL]>>
          /\ search' =
               [search EXCEPT
                  !.pc = "done",
                  !.ret = Returned(Decorated(search.api, search.results)),
                  !.populated = <<Decorated(search.api, search.results)>>]
       \/ /\ UNCHANGED cached
          /\ search' =
               [search EXCEPT
                  !.pc = "done",
                  !.ret = Returned(Decorated(search.api, search.results))]
       \/ /\ UNCHANGED cached
          /\ search' = [search EXCEPT !.pc = "done",
                                      !.ret = SetHandler("RedisError")]
    /\ UNCHANGED now
    /\ UNCHANGED <<plannerVars, cacheVars, geminiVars>>

\* an hour passes between two calls
Tick ==
    /\ search.pc \in {"idle", "done"}
    /\ now < MaxHours
    /\ now' = now + 1
    /\ UNCHANGED <<search, cached>>
    /\ UNCHANGED <<plannerVars, cacheVars, geminiVars>>

NextSearch ==
    \/ SearchCall
    \/ SearchGet
    \/ Fetch
    \/ StoreAndReturn
    \/ Tick

SpecSearch == InitSearch /\ [][NextSearch]_vars

----------------------------------------------------------------------------
(* GeminiService.generate_itinerary (src/services/gemini_service.py).      *)

\* max_attempts
MaxAttempts == 3

\* what generate_content can answer: nothing (or an exception), text that
\* fix_invalid_json cannot parse, JSON without travel_plan, JSON whose
\* travel_plan is a list of days, JSON whose travel_plan is something else
Replies == {"empty", "unparsable", "other", "plan", "malformed"}

\* lines 287-300: the parsed text, None when it cannot be parsed
FixInvalidJson(reply) ==
    IF reply \in {"empty", "unparsable"} THEN "None" ELSE reply

\* line 170: json_response and "travel_plan" in json_response
HasTravelPlan(json_response) == json_response \in {"plan", "malformed"}

InitGemini ==
    /\ PlannerIdle
    /\ CacheIdle
    /\ SearchIdle
    /\ \E cached_data \in {"None", "plan", "default"} :
         gemini = [pc |-> "idle", attempt |-> 0, replies |-> << >>,
                   json_response |-> "None", cached_data |-> cached_data,
                   ret |-> Returned("None")]

\* lines 82-87: cache.get, and the return of what the cache holds
GeminiCall ==
    /\ gemini.pc = "idle"
    /\ IF gemini.cached_data # "None"
       THEN gemini' = [gemini EXCEPT !.pc = "done",
                                     !.ret = Returned(gemini.cached_data)]
       ELSE gemini' = [gemini EXCEPT !.pc = "attempt"]
    /\ UNCHANGED <<plannerVars, cacheVars, searchVars>>

\* lines 159-170 and 177-180: one call of the model and the parsing of its
\* answer
Generate ==
    /\ gemini.pc = "attempt"
    /\ gemini.attempt < MaxAttempts
    /\ \E reply \in Replies :
         LET json_response == FixInvalidJson(reply)
         IN  IF reply # "empty" /\ json_response # "None"
                  /\ HasTravelPlan(json_response)
             THEN gemini' = [gemini EXCEPT
                               !.pc = "enrich",
                               !.replies = Append(@, reply),
                               !.json_response = json_response]
             ELSE gemini' = [gemini EXCEPT
                               !.replies = Append(@, reply),
                               !.attempt = @ + 1]
    /\ UNCHANGED <<plannerVars, cacheVars, searchVars>>

\* lines 171-175 and 179-180: enrich_with_images walks travel_plan and
\* raises when it is not a list of days; cache.set stores, or returns False,
\* or raises (SetHandler); whatever is raised is caught and the loop goes on
Enrich ==
    /\ gemini.pc = "enrich"
    /\ \/ /\ gemini.json_response = "plan"
          /\ gemini' = [gemini EXCEPT
                          !.pc = "done",
                          !.ret = Returned(gemini.json_response)]
       \/ /\ \/ gemini.json_response = "malformed"
             \/ SetHandler("RedisError").kind = "raised"
          /\ gemini' = [gemini EXCEPT !.pc = "attempt", !.attempt = @ + 1]
    /\ UNCHANGED <<plannerVars, cacheVars, searchVars>>

\* lines 182-186: the default itinerary is stored and returned; cache.set is
\* outside the try block here
Default ==
    /\ gemini.pc = "attempt"
    /\ gemini.attempt = MaxAttempts
    /\ \/ gemini' = [gemini EXCEPT !.pc = "done",
                                   !.ret = Returned("default")]
       \/ /\ SetHandler("RedisError").kind = "raised"
          /\ gemini' = [gemini EXCEPT !.pc = "done",
                                      !.ret = SetHandler("RedisError")]
    /\ UNCHANGED <<plannerVars, cacheVars, searchVars>>

NextGemini ==
    \/ GeminiCall
    \/ Generate
    \/ Enrich
    \/ Default

SpecGemini == InitGemini /\ [][NextGemini]_vars

----------------------------------------------------------------------------
(* Vocabulary of the properties.                                           *)

\* a coordinate the optimizer accepts: present and not zero
Accepted(c) == Len(c) = 1 /\ c[1] # 0

\* the places of ps with both coordinates accepted, in input order
WithCoordinates(ps) ==
    SelectSeq(ps, LAMBDA p : Accepted(p.mapx) /\ Accepted(p.mapy))

Failed(k) == IsSentinel(results[k])

\* r holds every record of ps exactly once and nothing else
IsPermutation(r, ps) ==
    /\ Len(r) = Len(ps)
    /\ \A k \in 1..Len(ps) :
         Cardinality({m \in 1..Len(r) : r[m] = ps[k]}) = 1

\* 0-based index in valid_places of a place of the route
IndexOf(place) ==
    CHOOSE i \in 0..(Len(valid_places) - 1) : valid_places[i + 1] = place

\* the matrix entry of the unordered pair {i, j}
PairEntry(i, j) ==
    IF <<i, j>> \in DOMAIN travel_times
    THEN travel_times[<<i, j>>]
    ELSE travel_times[<<j, i>>]

\* indices not yet in the route before its k-th element was appended
Remaining(k) ==
    {y \in 0..(Len(valid_places) - 1) :
        \A m \in 1..(k - 1) : optimized_route[m] # valid_places[y + 1]}

----------------------------------------------------------------------------
(* Properties.                                                             *)

\* C1: for an input of N >= 2 places that all have coordinates the optimizer
\* accepts, when every lookup of the call succeeded, the returned route holds
\* every input place exactly once and nothing else.
C1_RouteIsPermutation ==
    (/\ pc = "done"
     /\ Len(places) >= 2
     /\ WithCoordinates(places) = places
     /\ \A k \in 1..Len(results) : ~Failed(k))
       => IsPermutation(ret, places)

C1_Witness ==
    /\ pc = "done"
    /\ Len(places) >= 3
    /\ WithCoordinates(places) = places
    /\ Len(results) >= 6
    /\ \A k \in 1..Len(results) : ~Failed(k)
    /\ ret # places
    /\ IsPermutation(ret, places)

\* C2: every place of the route after the first was, when it was appended,
\* an unvisited place whose matrix entry for the pair {current, place} is
\* minimal among the entries of the unvisited places.
C2_NextIsNearest ==
    pc \in {"loop", "done"} =>
      \A k \in 2..Len(optimized_route) :
        LET cur == IndexOf(optimized_route[k - 1])
            nxt == IndexOf(optimized_route[k])
        IN  /\ nxt \in Remaining(k)
            /\ \A y \in Remaining(k) :
                 ~Less(PairEntry(cur, y), PairEntry(cur, nxt))

\* C3: when every lookup of the call failed, the returned route is the list
\* of places with coordinates, in input order.
C3_AllFailedKeepsInputOrder ==
    (/\ pc = "done"
     /\ tasks # << >>
     /\ \A k \in 1..Len(results) : Failed(k))
       => ret = WithCoordinates(places)

C3_Witness ==
    /\ pc = "done"
    /\ Len(valid_places) >= 3
    /\ Len(valid_places) < Len(places)
    /\ \A k \in 1..Len(results) : Failed(k)
    /\ ret = WithCoordinates(places)

\* C4: once the matrix is backfilled, an entry holds the sentinel only if
\* every lookup issued in the call failed.
C4_NoSentinelAfterBackfill ==
    (/\ pc \in {"start", "loop", "done"}
     /\ \E p \in DOMAIN travel_times : IsSentinel(travel_times[p]))
       => \A k \in 1..Len(results) : Failed(k)

\* C5: the value recorded for the pair {i, j} is the result of a lookup that
\* was issued for the places i and j (in either direction).
C5_EntryIsOwnLookup ==
    pc = "backfill" =>
      \A p \in DOMAIN travel_times :
        \E k \in 1..Len(tasks) :
          /\ tasks[k] \in {p, <<p[2], p[1]>>}
          /\ results[k] = travel_times[p]

\* C6: whenever the ordering loop weighs a move from the current place to an
\* unvisited place, the key it uses is the matrix entry of that pair, never
\* the default.
C6_KeyIsPairEntry ==
    pc = "loop" =>
      \A x \in unvisited :
        /\ <<current, x>> \in DOMAIN travel_times
        /\ Key(travel_times, current, x) = PairEntry(current, x)

\* C7: a call with N valid places issues exactly one lookup per unordered
\* pair, N * (N - 1) / 2 lookups in all.
C7_OneLookupPerPair ==
    (pc # "call" /\ Len(valid_places) >= 2) =>
      /\ 2 * Len(tasks) = Len(valid_places) * (Len(valid_places) - 1)
      /\ \A k, m \in 1..Len(tasks) :
           (k # m) => tasks[k] \notin {tasks[m], <<tasks[m][2], tasks[m][1]>>}

\* C8: an empty list or a single place, with or without coordinates, is
\* returned unchanged.
C8_TrivialInputUnchanged ==
    (pc = "done" /\ Len(places) <= 1) => ret = places

C8_Witness ==
    /\ pc = "done"
    /\ Len(places) = 1
    /\ WithCoordinates(places) = << >>
    /\ ret = places

\* C9 as stated: whenever fewer than 2 input places have coordinates, for any
\* input length, the call returns exactly the places with coordinates.
C9_ReturnsValidSubset ==
    (pc = "done" /\ Len(WithCoordinates(places)) < 2)
       => ret = WithCoordinates(places)

\* C9 amended: the same for every input other than a single place without
\* coordinates (which is returned unchanged).
C9_ReturnsValidSubsetOfLongerInput ==
    (/\ pc = "done"
     /\ Len(WithCoordinates(places)) < 2
     /\ ~(Len(places) = 1 /\ WithCoordinates(places) = << >>))
       => ret = WithCoordinates(places)

C9_Witness ==
    /\ pc = "done"
    /\ Len(places) >= 3
    /\ Len(WithCoordinates(places)) = 1
    /\ places[1] # WithCoordinates(places)[1]
    /\ ret = WithCoordinates(places)

\* C10: for an input of at least one place and any outcomes of the lookups,
\* the call never raises, and what it returns is a list of input places.
C10_NeverRaises ==
    Len(places) >= 1 =>
      /\ pc # "raised"
      /\ (pc = "done" =>
            \A k \in 1..Len(ret) : \E m \in 1..Len(places) : ret[k] = places[m])

C10_Witness ==
    /\ pc = "done"
    /\ Len(valid_places) >= 3
    /\ \E k \in 1..Len(results) : Failed(k)
    /\ \E k \in 1..Len(results) : ~Failed(k)
    /\ Len(ret) = Len(valid_places)

\* C11 as stated: for every non-empty input the returned route starts with
\* the first input place.
C11_StartsWithFirstInput ==
    (pc = "done" /\ Len(places) >= 1) =>
      (ret # << >> /\ ret[1] = places[1])

\* C11 amended: the returned route starts with the first input place that has
\* coordinates, which is the first input place whenever that place has
\* coordinates; a single place is returned whatever its coordinates.
C11_StartsWithFirstValid ==
    pc = "done" =>
      /\ (Len(places) >= 2 /\ WithCoordinates(places) # << >>)
           => (ret # << >> /\ ret[1] = WithCoordinates(places)[1])
      /\ (Len(places) = 1
            \/ (Len(places) >= 2 /\ WithCoordinates(<<places[1]>>) # << >>))
           => (ret # << >> /\ ret[1] = places[1])

C11_Witness ==
    /\ pc = "done"
    /\ Len(places) >= 3
    /\ WithCoordinates(<<places[1]>>) = << >>
    /\ Len(ret) >= 3
    /\ ret[1] = WithCoordinates(places)[1]
    /\ ret # WithCoordinates(places)

\* C12 as stated: for every input the output has the length of the input and
\* holds every input record, none added and none dropped.
C12_SameRecordsAsInput ==
    pc = "done" => IsPermutation(ret, places)

\* C12 amended: the output holds exactly the input records that have
\* coordinates, each once, none added; an input of at most one place is
\* returned as it is.
C12_SameRecordsAsValidInput ==
    pc = "done" =>
      IF Len(places) <= 1
      THEN ret = places
      ELSE IsPermutation(ret, WithCoordinates(places))

C12_Witness ==
    /\ pc = "done"
    /\ Len(places) = 4
    /\ Len(WithCoordinates(places)) = 3
    /\ Len(ret) = 3
    /\ ret # WithCoordinates(places)
    /\ IsPermutation(ret, WithCoordinates(places))

\* the places A(0,0), B(0,1), C(0,10), in that order
ExamplePlaces ==
    << [name |-> 1, mapx |-> <<0>>, mapy |-> <<0>>],
       [name |-> 2, mapx |-> <<0>>, mapy |-> <<1>>],
       [name |-> 3, mapx |-> <<0>>, mapy |-> <<10>>] >>

\* C13: called with A(0,0), B(0,1), C(0,10) and a provider that answers
\* A-B = 1, A-C = 10, B-C = 9 in both directions, the call returns [A, B, C].
C13_ExampleRoute ==
    (pc = "done" /\ places = ExamplePlaces /\ kakao_api = "DistanceClient")
       => ret = ExamplePlaces

\* present, mapx a longitude and mapy a latitude
InRange(place) ==
    /\ Len(place.mapx) = 1
    /\ Len(place.mapy) = 1
    /\ -180 <= place.mapx[1] /\ place.mapx[1] <= 180
    /\ -90 <= place.mapy[1] /\ place.mapy[1] <= 90

\* C20: every place that takes part in the matrix build and in the ordering
\* loop has coordinates that are present, with the latitude in [-90, 90] and
\* the longitude in [-180, 180].
C20_OptimizedPlacesInRange ==
    pc \in {"gather", "backfill", "start", "loop"} =>
      \A k \in 1..Len(valid_places) : InRange(valid_places[k])

\* keys of the entries of tt that hold a travel time, not the sentinel
Answered(tt) == {p \in DOMAIN tt : tt[p] # Num(Sentinel)}

\* the sum of x times the number of entries of tt that hold x, over xs
RECURSIVE Total(_, _)
Total(xs, tt) ==
    IF xs = {}
    THEN 0
    ELSE LET x == CHOOSE y \in xs : TRUE
         IN  x * Cardinality({p \in DOMAIN tt : tt[p] = Num(x)})
               + Total(xs \ {x}, tt)

\* v is the arithmetic mean of the travel times held by tt
IsMeanOfAnswered(v, tt) ==
    /\ v.tag = "num"
    /\ v.d > 0
    /\ v.n * Cardinality(Answered(tt))
         = v.d * Total({tt[p].n : p \in Answered(tt)}, tt)

\* C15: the backfill replaces every entry that holds the sentinel of a failed
\* lookup by the arithmetic mean of the entries that hold a travel time,
\* leaves the entries that hold a travel time unchanged, and leaves every
\* entry at 99999 when no lookup succeeded.
C15_BackfillWithMean ==
    [][(pc = "backfill" /\ pc' = "start") =>
         /\ DOMAIN travel_times' = DOMAIN travel_times
         /\ \A p \in Answered(travel_times) :
              travel_times'[p] = travel_times[p]
         /\ Answered(travel_times) # {} =>
              \A p \in DOMAIN travel_times \ Answered(travel_times) :
                IsMeanOfAnswered(travel_times'[p], travel_times)
         /\ (\A k \in 1..Len(results) : Failed(k)) =>
              \A p \in DOMAIN travel_times : travel_times'[p] = Num(Sentinel)
      ]_vars

C15_Witness ==
    /\ pc = "start"
    /\ Len(valid_places) >= 3
    /\ \E p, q \in DOMAIN travel_times :
         /\ travel_times[p].d >= 2
         /\ travel_times[p].n # travel_times[p].d * UsualTime
         /\ travel_times[q].d = 1
         /\ travel_times[q].n < Sentinel

\* the unordered pairs of indices into valid_places
UnorderedPairs ==
    {pr \in SUBSET (0..(Len(valid_places) - 1)) : Cardinality(pr) = 2}

\* the keys of the matrix that stand for the unordered pair pr
KeysOf(pr) == {p \in DOMAIN travel_times : {p[1], p[2]} = pr}

\* C16: once the matrix is filled, and so before the ordering loop begins,
\* it holds exactly one entry for every unordered pair of valid places: no
\* pair is missing, no pair is stored twice, and no other key is stored.
C16_OneEntryPerPair ==
    pc \in {"backfill", "start", "loop"} =>
      /\ \A pr \in UnorderedPairs : Cardinality(KeysOf(pr)) = 1
      /\ \A p \in DOMAIN travel_times : {p[1], p[2]} \in UnorderedPairs

C16_Witness ==
    /\ pc = "start"
    /\ Len(valid_places) = 4
    /\ Cardinality(UnorderedPairs) = 6
    /\ Cardinality(DOMAIN travel_times) = 6

\* C17: a lookup whose provider call times out, raises or yields no data
\* resolves to the number 99999, never to an exception; the step leaves the
\* results of the lookups resolved before it as they were and the batch goes
\* on.
C17_FailedLookupIsSentinel ==
    [][(pc = "gather" /\ Len(results') = Len(results) + 1) =>
         /\ SubSeq(results', 1, Len(results)) = results
         /\ results'[Len(results')].tag = "num"
         /\ provider_outcome'.kind \in {"None", "timeout", "error"} =>
              results'[Len(results')] = Num(Sentinel)
         /\ provider_outcome'.kind = "time" =>
              results'[Len(results')] = Num(provider_outcome'.t)
         /\ pc' = "gather"
      ]_vars

C17_Witness ==
    /\ pc = "gather"
    /\ provider_outcome.kind = "timeout"
    /\ Len(results) >= 2
    /\ results[1] = Num(1)
    /\ results[Len(results)] = Num(Sentinel)

\* a lookup issued for this call has not resolved yet
LookupPending == Len(results) < Len(tasks)

\* C18: while a lookup of the batch is pending the matrix is empty, nothing
\* is backfilled and no route element is chosen; the fill, the backfill and
\* the ordering are reached only with a result, a value or the sentinel, for
\* every lookup issued.
C18_BatchBarrier ==
    /\ LookupPending =>
         /\ pc = "gather"
         /\ travel_times = EmptyTimes
         /\ optimized_route = << >>
    /\ pc \in {"backfill", "start", "loop"} =>
         /\ ~LookupPending
         /\ \A k \in 1..Len(results) : results[k].tag = "num"

C18_Witness ==
    /\ pc = "loop"
    /\ Len(optimized_route) >= 2
    /\ Len(tasks) = 12
    /\ ~LookupPending
    /\ \E k, m \in 1..Len(results) : Failed(k) /\ ~Failed(m)

\* C19: with a single input place, or fewer than two places whose
\* coordinates pass the filter, no lookup is ever created, sent to the
\* provider or resolved, and the call returns.
C19_NoLookupForShortInput ==
    (Len(places) = 1 \/ Len(WithCoordinates(places)) < 2) =>
      /\ tasks = << >>
      /\ results = << >>
      /\ provider_outcome = NoOutcome
      /\ pc \in {"call", "done"}

C19_Witness ==
    /\ pc = "done"
    /\ Len(places) = 3
    /\ Len(WithCoordinates(places)) = 1
    /\ ret = WithCoordinates(places)
    /\ tasks = << >>
    /\ provider_outcome = NoOutcome

\* C22: every call comes to its return; when the ordering loop ran, it
\* ended with every valid place in the route, that is after one selection
\* for each valid place but the anchor.
C22_Terminates ==
    <>(/\ pc = "done"
       /\ tasks # << >> => Len(optimized_route) = Len(valid_places))

C22_Witness ==
    /\ pc = "done"
    /\ provider_outcome.kind = "timeout"
    /\ Len(valid_places) = 4
    /\ Len(optimized_route) = 4
    /\ \E k, m \in 1..Len(results) : Failed(k) /\ ~Failed(m)

\* the unvisited places nearest to cur by the matrix entry of their pair,
\* before the k-th element of the route was appended
Nearest(k, cur) ==
    {y \in Remaining(k) :
       \A z \in Remaining(k) : ~Less(PairEntry(cur, z), PairEntry(cur, y))}

\* C23: when several unvisited places share the minimum travel time from the
\* current place, the place appended is the one of them with the lowest
\* index.
C23_TieTakesLowestIndex ==
    pc \in {"loop", "done"} =>
      \A k \in 2..Len(optimized_route) :
        LET cur == IndexOf(optimized_route[k - 1])
            nxt == IndexOf(optimized_route[k])
        IN  Cardinality(Nearest(k, cur)) >= 2 =>
              /\ nxt \in Nearest(k, cur)
              /\ \A y \in Nearest(k, cur) : nxt <= y

\* the places already in the route, and the places still unvisited
RoutePlaces == {optimized_route[m] : m \in 1..Len(optimized_route)}

UnvisitedPlaces == {valid_places[i + 1] : i \in unvisited}

\* C27: at the head of every iteration of the ordering loop the places in
\* the route and the unvisited places are disjoint, the route holds no place
\* twice, and together they are exactly the valid places; an iteration moves
\* exactly one index from unvisited to the end of the route.
C27_LoopInvariant ==
    [][pc = "loop" =>
         /\ unvisited \subseteq 0..(Len(valid_places) - 1)
         /\ RoutePlaces \cap UnvisitedPlaces = {}
         /\ Cardinality(RoutePlaces) = Len(optimized_route)
         /\ RoutePlaces \cup UnvisitedPlaces
              = {valid_places[k] : k \in 1..Len(valid_places)}
         /\ (pc' = "loop" /\ unvisited # {}) =>
              \E x \in unvisited :
                /\ unvisited' = unvisited \ {x}
                /\ optimized_route' =
                     Append(optimized_route, valid_places[x + 1])
      ]_vars

C27_Witness ==
    /\ pc = "loop"
    /\ Len(optimized_route) = 3
    /\ Cardinality(unvisited) = 1
    /\ optimized_route[2] = valid_places[3]
    /\ unvisited = {1}

\* C28 as stated: with the shipped client every lookup resolves to the
\* sentinel and, for every input, the call returns the places with
\* coordinates in input order.
C28_ShippedClientKeepsValidOrder ==
    kakao_api = "KakaoMapClient" =>
      /\ \A k \in 1..Len(results) : Failed(k)
      /\ pc = "done" => ret = WithCoordinates(places)

\* C28 amended: the same, for inputs of two places or more; a single place
\* is returned as it is, with coordinates or without.
C28_ShippedClientKeepsOrder ==
    kakao_api = "KakaoMapClient" =>
      /\ \A k \in 1..Len(results) : Failed(k)
      /\ provider_outcome.kind \in {"pending", "error"}
      /\ \A p \in DOMAIN travel_times : travel_times[p] = Num(Sentinel)
      /\ pc = "done" =>
           ret = IF Len(places) <= 1 THEN places ELSE WithCoordinates(places)

C28_Witness ==
    /\ kakao_api = "KakaoMapClient"
    /\ pc = "done"
    /\ Len(places) = 4
    /\ Len(ret) = 3
    /\ ret = WithCoordinates(places)
    /\ Len(results) = 6
    /\ provider_outcome.kind = "error"

\* the coroutines inside the critical section of _initialize
Initializing ==
    {c \in Coroutines : coroutines[c].pc \in {"from_url", "verify"}}

\* C21: however the callers interleave, at most one of them is creating a
\* connection at a time, and from the success of an initialization until
\* close resets the cache no step creates another connection: self.redis
\* stays the open connection that initialization made.
C21_OneConnection ==
    [][/\ Cardinality(Initializing) <= 1
       /\ _initialized =>
            /\ Len(connections') = Len(connections)
            /\ redis \in 1..Len(connections)
            /\ connections[redis] = "open"
            /\ Initializing = {}
      ]_vars

C21_Witness ==
    /\ _initialized
    /\ Len(connections) = 1
    /\ \E c, d \in Coroutines :
         /\ coroutines[c].pc = "lock"
         /\ coroutines[d].pc = "done"
         /\ coroutines[d].op = "ensure_connection"

\* C24: a set whose value cannot be serialized or whose Redis command
\* raises returns False, and a get or a delete whose Redis command raises
\* returns None or False; none of them raises.
C24_FailuresAreReturned ==
    \A c \in Coroutines :
      (/\ coroutines[c].pc = "done"
       /\ coroutines[c].op \in {"get", "set", "delete"}
       /\ coroutines[c].exc \in {"TypeError", "RedisError"})
        => coroutines[c].ret =
             [kind |-> "returned",
              value |-> IF coroutines[c].op = "get" THEN "None" ELSE "False"]

\* C29: whatever close does meanwhile, a get, set or delete whose value is
\* serializable and whose Redis commands all answer returns a value: it
\* never raises for having read self.redis after close has reset it.
C29_NoUseOfResetConnection ==
    \A c \in Coroutines :
      (/\ coroutines[c].pc = "done"
       /\ coroutines[c].op \in {"get", "set", "delete"}
       /\ coroutines[c].exc \notin {"TypeError", "RedisError"})
        => coroutines[c].ret.kind = "returned"

\* C25: while the entry a search stored has not expired and the cache
\* answers, a repeated search does not go on to the provider, whatever list
\* the provider had returned.
C25_NoSecondRequest ==
    [][(/\ search.pc = "get"
        /\ cached # << >>
        /\ now < cached[1].expires
        /\ ~search'.cache_error)
         => search'.pc # "fetch"
      ]_vars

\* C30: a Kakao or Naver search answered from the cache returns the list
\* that the call which stored the entry returned.
C30_HitEqualsFetch ==
    (/\ search.pc = "done"
     /\ search.hit
     /\ search.api \in {"kakao", "naver"})
      => search.ret = Returned(search.populated[1])

\* C26: the model is called at most 3 times; no call follows a call whose
\* answer parsed and contained travel_plan; the call returns, and what it
\* returns contains travel_plan; when no answer did, and the cache held
\* nothing, that is the default itinerary.
C26_AtMostThreeCalls ==
    /\ Len(gemini.replies) <= 3
    /\ \A k \in 1..(Len(gemini.replies) - 1) :
         gemini.replies[k] \notin {"plan", "malformed"}
    /\ gemini.pc = "done" =>
         /\ gemini.ret.kind = "returned"
         /\ gemini.ret.value \in {"plan", "default"}
         /\ (/\ gemini.cached_data = "None"
             /\ \A k \in 1..Len(gemini.replies) :
                  gemini.replies[k] \notin {"plan", "malformed"})
              => gemini.ret.value = "default"

====
